---------------------------- MODULE Spec2Model ----------------------------
(***************************************************************************)
(* Chunked resumable upload of CougarFanz.                                 *)
(*                                                                         *)
(*   - MediaHubClient (server/services, the upload session store):         *)
(*     initializeUpload, uploadChunk, completeUpload, getUploadProgress,   *)
(*     resumeUpload over the process-wide uploadSessions map.  An async    *)
(*     method runs to its first await in one step and from the await to    *)
(*     its return in a second step; other calls interleave in between.     *)
(*   - useChunkedUpload (client hook): uploadFile, uploadChunk, pause,     *)
(*     resume, cancel.                                                     *)
(*                                                                         *)
(* SpecStore is the session store under concurrent calls, SpecStoreClock  *)
(* the same with the clock advancing, SpecRoutes the store behind the      *)
(* upload routes, SpecClient one uploadFile run against the store,         *)
(* SpecClientHappy such a run in which every request succeeds, and         *)
(* SpecChunking the chunk arithmetic on its own.                           *)
(***************************************************************************)
EXTENDS Integers, Sequences, FiniteSets, TLC

\* ------------------------------------------------------------------------
\* Bounds of the model
\* ------------------------------------------------------------------------

\* upload ids crypto.randomUUID() hands out in one run of the store
MaxSessions == 1
\* async calls of the store suspended on the remote MediaHub at one time
MaxInFlight == 2
\* calls of the store made in one run
MaxOps == 5
\* clock advances in one run
MaxTicks == 2
\* chunks of the largest file uploadFile is given
MaxFileChunks == 2
\* chunks of the largest file the chunk plan is computed for
MaxPlanChunks == 8

\* ------------------------------------------------------------------------
\* Program constants
\* ------------------------------------------------------------------------

CHUNK_SIZE == 5 * 1024 * 1024
SESSION_TTL_MS == 24 * 60 * 60 * 1000
PLATFORM_ID == "cougarfanz"
DEFAULT_CHUNK_SIZE == 5 * 1024 * 1024
MAX_PARALLEL_CHUNKS == 4
MAX_RETRIES == 3

\* one clock advance (just over half a session lifetime)
ClockStep == (SESSION_TTL_MS \div 2) + 1

\* the upload ids callers pass: the ids the store issues and one it never does
UploadIds == 1..(MaxSessions + 1)
Slots == 1..MaxInFlight

\* metadata the callers of initializeUpload pass
Creators == {"creatorA"}
Filenames == {"clip.mp4"}
MimeTypes == {"video/mp4"}
FileSizes == {1, CHUNK_SIZE + 1}
Metadata == [filename : Filenames, fileSize : FileSizes,
             mimeType : MimeTypes, creatorId : Creators]
\* chunk indices callers of uploadChunk pass (the store never looks at them)
ChunkIndices == {0, 1}

\* sizes of the files uploadFile is given: 1, 2, ... chunks, the last one
\* a single byte
ClientFileSizes == {(k - 1) * CHUNK_SIZE + 1 : k \in 1..MaxFileChunks}
Chunks == 0..(MaxFileChunks - 1)
\* what GET /config answers with: the server's chunk size, and the
\* maxParallelChunks of the deployment
ConfigAnswers == [chunkSize : {CHUNK_SIZE}, maxParallelChunks : {1, 2}]
NoAnswer == [chunkSize |-> 0, maxParallelChunks |-> 0]

VARIABLES
    isConnected,     \* MediaHubClient.isConnected
    apiKeySet,       \* MEDIAHUB_API_KEY is a non-empty string
    uploadSessions,  \* keys of the MediaHubClient.uploadSessions map
    heap,            \* the UploadSession object each upload id names
    nextUploadId,    \* upload ids handed out so far + 1
    now,             \* Date.now(), ms
    calls,           \* the async calls suspended on the remote MediaHub
    opCount,         \* calls made so far
    lastCall,        \* the latest finished call and what it returned
    assetsReturned,  \* per upload id: MediaAssets completeUpload returned
    chunkSuccess,    \* per upload id: uploadChunk calls that returned success
    completeCalled,  \* per upload id: completeUpload was called for it
    observed,        \* per upload id: the latest getUploadProgress result
                     \* and the completedChunks of the one before it
    overlapSeen      \* per upload id: an uploadChunk call was made while
                     \* another one for the same id was suspended

storeVars == <<isConnected, apiKeySet, uploadSessions, heap, nextUploadId, now,
               calls, opCount, lastCall, assetsReturned, chunkSuccess,
               completeCalled, observed, overlapSeen>>

VARIABLES
    phase,           \* where uploadFile is: idle, config, init, chunks,
                     \* complete, returned
    file,            \* the File being uploaded: its size in bytes
    configRef,       \* configRef.current: chunkSize, maxParallelChunks
    hasController,   \* abortControllerRef.current is not null
    signalAborted,   \* the AbortSignal of this upload is aborted
    pausedRef,       \* pausedRef.current
    isPaused,        \* the isPaused state
    isUploading,     \* the isUploading state
    uploadSessionRef,\* uploadSessionRef.current: the session's uploadId, 0 = null
    totalChunks,     \* session.totalChunks as the init response gave it
    chunks,          \* the chunks array of uploadFile: index, start, end
    chunkQueue,      \* chunkQueue: the chunk indices still to be launched
    activeUploads,   \* activeUploads: the chunks whose promise is in the array
    workers,         \* per chunk: where its uploadChunk call is, and `retries`
    completedChunks, \* the completedChunks counter of uploadFile
    progress,        \* the progress state
    result,          \* what uploadFile returned: none, success, null
    error,           \* the error state
    sends,           \* per chunk: chunk requests sent so far
    acked,           \* the chunks for which a 2xx response reached the client
    completeSent,    \* complete requests sent so far
    cancelIssued,    \* cancel was called while uploadFile was running
    sentAfterCancel  \* a chunk request was sent after that cancel

clientVars == <<phase, file, configRef, hasController, signalAborted, pausedRef,
                isPaused, isUploading, uploadSessionRef, totalChunks, chunks,
                chunkQueue, activeUploads, workers, completedChunks, progress,
                result, error, sends, acked, completeSent, cancelIssued,
                sentAfterCancel>>

vars == <<storeVars, clientVars>>

\* ------------------------------------------------------------------------
\* Values
\* ------------------------------------------------------------------------

NoSession == [uploadId |-> 0]
NoCall == [op |-> "idle"]
NoResult == [flip |-> FALSE, op |-> "none"]
NoProgress == [seen |-> FALSE, completedChunks |-> -1]

\* Math.ceil(a / b) for b > 0
Ceil(a, b) == IF a % b = 0 THEN a \div b ELSE (a \div b) + 1

\* `this.isConnected && MEDIAHUB_API_KEY`
UseRemote == isConnected /\ apiKeySet

\* generateForensicSignature: the digest of creatorId|platformId|timestamp
GenerateForensicSignature(creatorId, ts) ==
    <<"FANZ", creatorId, PLATFORM_ID, ts>>

\* the session object initializeUpload builds (local fallback) or the remote
\* MediaHub answers with
NewSession(uploadId, md, sig, t) ==
    [uploadId |-> uploadId,
     platformId |-> PLATFORM_ID,
     creatorId |-> md.creatorId,
     filename |-> md.filename,
     fileSize |-> md.fileSize,
     mimeType |-> md.mimeType,
     totalChunks |-> Ceil(md.fileSize, CHUNK_SIZE),
     completedChunks |-> 0,
     status |-> "in_progress",
     forensicSignature |-> sig,
     createdAt |-> t,
     expiresAt |-> t + SESSION_TTL_MS]

\* uploadChunk setting the counter from the chunk's index instead of counting
AcceptChunkByIndex(session, chunkIndex) ==
    [session EXCEPT !.completedChunks = chunkIndex + 1]

\* uploadChunk refusing to count past totalChunks
AcceptChunkCapped(session, chunkIndex) ==
    [session EXCEPT !.completedChunks =
        IF @ < session.totalChunks THEN @ + 1 ELSE @]

\* uploadChunk putting the session back to in_progress when it counts a chunk
AcceptChunkReopens(session, chunkIndex) ==
    [session EXCEPT !.completedChunks = @ + 1, !.status = "in_progress"]

\* `session.completedChunks++` of uploadChunk
AcceptChunk(session, chunkIndex) ==
    [session EXCEPT !.completedChunks = @ + 1]

\* completeUpload leaving the forensic signature out of the asset
BuildAssetUnsigned(session) ==
    [platformId |-> PLATFORM_ID,
     creatorId |-> session.creatorId,
     originalFilename |-> session.filename,
     fileSize |-> session.fileSize,
     mimeType |-> session.mimeType,
     forensicSignature |-> <<>>,
     processingStatus |-> "pending"]

\* the MediaAsset completeUpload builds from the session
BuildAsset(session) ==
    [platformId |-> PLATFORM_ID,
     creatorId |-> session.creatorId,
     originalFilename |-> session.filename,
     fileSize |-> session.fileSize,
     mimeType |-> session.mimeType,
     forensicSignature |-> session.forensicSignature,
     processingStatus |-> "pending"]

\* getUploadProgress answering the ratio completedChunks / totalChunks, not
\* the percentage
ProgressOfRatio(session) ==
    [num |-> session.completedChunks,
     den |-> session.totalChunks,
     status |-> session.status]

\* resumeUpload not looking at the session's status
CanResumeAnyStatus(session) == TRUE

\* `session.status !== 'in_progress'` of resumeUpload, negated
CanResume(session) == session.status = "in_progress"

\* getUploadProgress's result for a session: completedChunks / totalChunks * 100
\* as the exact fraction num / den
ProgressOf(session) ==
    [num |-> session.completedChunks * 100,
     den |-> session.totalChunks,
     status |-> session.status]

FreeSlot(c) == calls[c].op = "idle"

\* the call that just returned (or threw): what it was and what it gave;
\* `flip` changes with every return
\* `late`: the call was made after the session's expiresAt
Finish(op, uploadId, chunkIndex, found, late, ret) ==
    lastCall' = [flip |-> ~lastCall.flip, op |-> op, uploadId |-> uploadId,
                 chunkIndex |-> chunkIndex, found |-> found, late |-> late,
                 ret |-> ret]

\* the clock has passed the session's expiresAt
Expired(session) == now > session.expiresAt

\* the suspended-call record the next call to await the remote MediaHub gets
NextSlot == CHOOSE c \in Slots : FreeSlot(c) /\ \A d \in Slots : FreeSlot(d) => c <= d
HasFreeSlot == \E c \in Slots : FreeSlot(c)

\* ------------------------------------------------------------------------
\* Initial state: a freshly constructed MediaHubClient
\* ------------------------------------------------------------------------

StoreInit ==
    /\ isConnected = FALSE
    /\ apiKeySet \in BOOLEAN
    /\ uploadSessions = {}
    /\ heap = [id \in UploadIds |-> NoSession]
    /\ nextUploadId = 1
    /\ now = 0
    /\ calls = [c \in Slots |-> NoCall]
    /\ opCount = 0
    /\ lastCall = NoResult
    /\ assetsReturned = [id \in UploadIds |-> 0]
    /\ chunkSuccess = [id \in UploadIds |-> 0]
    /\ completeCalled = [id \in UploadIds |-> FALSE]
    /\ observed = [id \in UploadIds |-> NoProgress]
    /\ overlapSeen = [id \in UploadIds |-> FALSE]

\* ------------------------------------------------------------------------
\* useChunkedUpload: values and helpers
\* ------------------------------------------------------------------------

Running == {"config", "init", "chunks", "complete"}
InFlightPcs == {"pauseWait", "sent", "respOk", "respErr", "backoff"}
OnTheWire == {"sent", "respOk", "respErr"}

NoWorker == [pc |-> "none", retries |-> 0, why |-> "none"]
Queued == [pc |-> "queued", retries |-> 0, why |-> "none"]

\* `a || b` on numbers
OrElse(a, b) == IF a # 0 THEN a ELSE b

Min(a, b) == IF a <= b THEN a ELSE b

\* Math.round(a / b * 100) for a >= 0, b > 0
RoundPercent(a, b) == (200 * a + b) \div (2 * b)

\* fetchConfig: configRef.current after the answer (NoAnswer: the fetch failed
\* or the response was not ok, configRef keeps its value)
FetchConfig(cfg, answer) ==
    IF answer = NoAnswer THEN cfg
    ELSE [chunkSize |-> OrElse(answer.chunkSize, DEFAULT_CHUNK_SIZE),
          maxParallelChunks |->
              OrElse(answer.maxParallelChunks, MAX_PARALLEL_CHUNKS)]

\* (Date.now() - startTimeRef.current) / 1000 at a call of updateProgress, in
\* whole seconds: the clock of Date.now() may stand still or be set back
ElapsedSeconds == {-1, 0, 1}

\* a quotient of two numbers, kept as the pair; den > 0
Ratio(n, d) == [num |-> n, den |-> d]
ZeroRatio == Ratio(0, 1)

\* elapsedSeconds > 0 ? uploadedBytes / elapsedSeconds : 0
SpeedOf(uploadedBytes, elapsedSeconds) ==
    IF elapsedSeconds > 0
    THEN Ratio(uploadedBytes, elapsedSeconds)
    ELSE ZeroRatio

\* speed > 0 ? remainingBytes / speed : 0
RemainingTimeOf(remainingBytes, speed) ==
    IF speed.num > 0
    THEN Ratio(remainingBytes * speed.den, speed.num)
    ELSE ZeroRatio

\* updateProgress without the Math.min on uploadedBytes
UpdateProgressNoMin(completed, total, totalBytes, chunkSize, elapsedSeconds) ==
    LET uploadedBytes == completed * chunkSize
        speed == SpeedOf(uploadedBytes, elapsedSeconds)
    IN [percentage |-> RoundPercent(completed, total),
        uploadedBytes |-> uploadedBytes,
        totalBytes |-> totalBytes,
        chunksCompleted |-> completed,
        totalChunks |-> total,
        speed |-> speed,
        remainingTime |-> RemainingTimeOf(totalBytes - uploadedBytes, speed)]

\* updateProgress: the progress state it sets when the clock reads
\* elapsedSeconds after the start of the upload
UpdateProgress(completed, total, totalBytes, chunkSize, elapsedSeconds) ==
    LET uploadedBytes == Min(completed * chunkSize, totalBytes)
        speed == SpeedOf(uploadedBytes, elapsedSeconds)
    IN [percentage |-> RoundPercent(completed, total),
        uploadedBytes |-> uploadedBytes,
        totalBytes |-> totalBytes,
        chunksCompleted |-> completed,
        totalChunks |-> total,
        speed |-> speed,
        remainingTime |-> RemainingTimeOf(totalBytes - uploadedBytes, speed)]

NoProgressState == [percentage |-> -1]

\* the fetch of uploadChunk: with the signal aborted it rejects with an
\* AbortError at once, which uploadChunk rethrows; otherwise the chunk request
\* is sent
Fetch(w, aborted) ==
    IF aborted THEN [w EXCEPT !.pc = "rejected", !.why = "abort"]
    ELSE [w EXCEPT !.pc = "sent"]

\* the top of the while loop without the test of pausedRef.current
AttemptIgnoringPause(w, paused, aborted) == Fetch(w, aborted)

\* the top of uploadChunk's while loop (retries < MAX_RETRIES): wait while
\* paused, else fetch
Attempt(w, paused, aborted) ==
    IF paused THEN [w EXCEPT !.pc = "pauseWait"] ELSE Fetch(w, aborted)

\* the fill loop launching one more chunk although maxParallelChunks are active
CanLaunchOneMore(queue, active, maxParallel) ==
    Len(queue) > 0 /\ Cardinality(active) <= maxParallel

\* the condition of the fill loop of uploadFile
CanLaunch(queue, active, maxParallel) ==
    Len(queue) > 0 /\ Cardinality(active) < maxParallel

\* the fill loop of uploadFile: launch queued chunks while CanLaunch
RECURSIVE Fill(_, _, _, _, _, _)
Fill(ws, queue, active, maxParallel, paused, aborted) ==
    IF CanLaunch(queue, active, maxParallel)
    THEN LET i == Head(queue)
         IN Fill([ws EXCEPT ![i] = Attempt(Queued, paused, aborted)],
                 Tail(queue), active \cup {i}, maxParallel, paused, aborted)
    ELSE [ws |-> ws, queue |-> queue, active |-> active]

\* uploadFile cutting every chunk at start + chunkSize, past the end of the
\* file
ChunkRangeUnclamped(i, chunkSize, fileSize) ==
    [index |-> i,
     start |-> i * chunkSize,
     end |-> (i * chunkSize) + chunkSize]

\* the byte range uploadFile gives chunk i: start = i * chunkSize,
\* end = Math.min(start + chunkSize, file.size)
ChunkRange(i, chunkSize, fileSize) ==
    [index |-> i,
     start |-> i * chunkSize,
     end |-> Min((i * chunkSize) + chunkSize, fileSize)]

\* the chunks array uploadFile builds for i = 0 .. n-1
RECURSIVE ChunkPlan(_, _, _)
ChunkPlan(n, chunkSize, fileSize) ==
    IF n <= 0 THEN <<>>
    ELSE Append(ChunkPlan(n - 1, chunkSize, fileSize),
                ChunkRange(n - 1, chunkSize, fileSize))

\* the loop that builds the chunks stopping one short (i < totalChunks - 1)
ChunkSeqSkipsLast(n) == [k \in 1..(n - 1) |-> k - 1]

\* the chunk indices 0..n-1 in order
RECURSIVE ChunkSeq(_)
ChunkSeq(n) == IF n <= 0 THEN <<>> ELSE Append(ChunkSeq(n - 1), n - 1)

\* ------------------------------------------------------------------------
\* Initial state of the client: the hook is mounted, no upload started; the
\* server's store is the freshly constructed, unconnected MediaHubClient
\* ------------------------------------------------------------------------

\* the hook with nothing started, holding the given file and configuration
ClientInitWith(f, cfg) ==
    /\ phase = "idle"
    /\ file = f
    /\ configRef = cfg
    /\ chunks = <<>>
    /\ hasController = FALSE
    /\ signalAborted = FALSE
    /\ pausedRef = FALSE
    /\ isPaused = FALSE
    /\ isUploading = FALSE
    /\ uploadSessionRef = 0
    /\ totalChunks = 0
    /\ chunkQueue = <<>>
    /\ activeUploads = {}
    /\ workers = [i \in Chunks |-> NoWorker]
    /\ completedChunks = 0
    /\ progress = NoProgressState
    /\ result = "none"
    /\ error = "none"
    /\ sends = [i \in Chunks |-> 0]
    /\ acked = {}
    /\ completeSent = 0
    /\ cancelIssued = FALSE
    /\ sentAfterCancel = FALSE

DefaultConfig == [chunkSize |-> DEFAULT_CHUNK_SIZE,
                  maxParallelChunks |-> MAX_PARALLEL_CHUNKS]

ClientInit == ClientInitWith(0, DefaultConfig)

Init ==
    /\ StoreInit
    /\ ClientInit

\* ------------------------------------------------------------------------
\* MediaHubClient: connection and clock
\* ------------------------------------------------------------------------

\* connect(): registers with the remote MediaHub; needs MEDIAHUB_API_KEY
Connect ==
    /\ apiKeySet
    /\ ~isConnected
    /\ isConnected' = TRUE
    /\ UNCHANGED <<apiKeySet, uploadSessions, heap, nextUploadId, now, calls,
                   opCount, lastCall, assetsReturned, chunkSuccess,
                   completeCalled, observed, overlapSeen>>
    /\ UNCHANGED clientVars

\* disconnect()
Disconnect ==
    /\ isConnected
    /\ isConnected' = FALSE
    /\ UNCHANGED <<apiKeySet, uploadSessions, heap, nextUploadId, now, calls,
                   opCount, lastCall, assetsReturned, chunkSuccess,
                   completeCalled, observed, overlapSeen>>
    /\ UNCHANGED clientVars

\* time passes
Tick ==
    /\ now < MaxTicks * ClockStep
    /\ now' = now + ClockStep
    /\ UNCHANGED <<isConnected, apiKeySet, uploadSessions, heap, nextUploadId,
                   calls, opCount, lastCall, assetsReturned, chunkSuccess,
                   completeCalled, observed, overlapSeen>>
    /\ UNCHANGED clientVars

\* ------------------------------------------------------------------------
\* MediaHubClient.initializeUpload
\* ------------------------------------------------------------------------

\* the call up to its return (local fallback) or to `await fetch(.../init)`
InitializeUpload(md) ==
    /\ opCount < MaxOps
    /\ nextUploadId <= MaxSessions
    /\ opCount' = opCount + 1
    /\ nextUploadId' = nextUploadId + 1
    /\ LET uploadId == nextUploadId
           sig == GenerateForensicSignature(md.creatorId, now)
       IN IF UseRemote
          THEN /\ HasFreeSlot
               /\ calls' = [calls EXCEPT ![NextSlot] =
                          [op |-> "initializeUpload", uploadId |-> uploadId,
                           md |-> md, sig |-> sig]]
               /\ UNCHANGED <<uploadSessions, heap, lastCall>>
          ELSE /\ heap' = [heap EXCEPT ![uploadId] =
                                NewSession(uploadId, md, sig, now)]
               /\ uploadSessions' = uploadSessions \cup {uploadId}
               /\ Finish("initializeUpload", uploadId, 0, TRUE, FALSE,
                         [kind |-> "return", remote |-> FALSE])
               /\ UNCHANGED calls
    /\ UNCHANGED <<isConnected, apiKeySet, now, assetsReturned, chunkSuccess,
                   completeCalled, observed, overlapSeen>>
    /\ UNCHANGED clientVars

\* from the remote answer to the return: the remote session when the answer
\* is ok, the local fallback session when it is not or the fetch threw
InitializeUploadResume(c, ok) ==
    /\ calls[c].op = "initializeUpload"
    /\ LET f == calls[c]
       IN /\ heap' = [heap EXCEPT ![f.uploadId] =
                         NewSession(f.uploadId, f.md, f.sig, now)]
          /\ uploadSessions' = uploadSessions \cup {f.uploadId}
          /\ Finish("initializeUpload", f.uploadId, 0, TRUE, FALSE,
                    [kind |-> "return", remote |-> ok])
    /\ calls' = [calls EXCEPT ![c] = NoCall]
    /\ UNCHANGED <<isConnected, apiKeySet, nextUploadId, now, opCount,
                   assetsReturned, chunkSuccess, completeCalled, observed, overlapSeen>>
    /\ UNCHANGED clientVars

\* ------------------------------------------------------------------------
\* MediaHubClient.uploadChunk
\* ------------------------------------------------------------------------

\* uploadChunk throwing for an unknown upload id, as completeUpload does
ChunkNotFoundThrows(chunkIndex) ==
    [kind |-> "throw", success |-> FALSE, chunkIndex |-> chunkIndex,
     error |-> "Session not found"]

ChunkNotFound(chunkIndex) ==
    [kind |-> "return", success |-> FALSE, chunkIndex |-> chunkIndex,
     error |-> "Session not found"]

ChunkOk(chunkIndex, etag) ==
    [kind |-> "return", success |-> TRUE, chunkIndex |-> chunkIndex,
     etag |-> etag]

\* an uploadChunk call for the upload id is suspended on the remote MediaHub
PendingChunk(uploadId) ==
    \E c \in Slots : calls[c].op = "uploadChunk" /\ calls[c].uploadId = uploadId

\* the call up to its return or to `await fetch(.../chunk)`
UploadChunk(uploadId, chunkIndex) ==
    /\ opCount < MaxOps
    /\ opCount' = opCount + 1
    /\ IF uploadId \notin uploadSessions
       THEN /\ Finish("uploadChunk", uploadId, chunkIndex, FALSE, FALSE,
                      ChunkNotFound(chunkIndex))
            /\ UNCHANGED <<heap, calls, chunkSuccess>>
       ELSE IF UseRemote
       THEN /\ HasFreeSlot
            /\ calls' = [calls EXCEPT ![NextSlot] =
                       [op |-> "uploadChunk", uploadId |-> uploadId,
                        chunkIndex |-> chunkIndex,
                        late |-> Expired(heap[uploadId])]]
            /\ UNCHANGED <<heap, lastCall, chunkSuccess>>
       ELSE /\ heap' = [heap EXCEPT ![uploadId] = AcceptChunk(@, chunkIndex)]
            /\ chunkSuccess' = [chunkSuccess EXCEPT ![uploadId] = @ + 1]
            /\ Finish("uploadChunk", uploadId, chunkIndex, TRUE,
                      Expired(heap[uploadId]),
                      ChunkOk(chunkIndex, "md5"))
            /\ UNCHANGED calls
    /\ overlapSeen' = [overlapSeen EXCEPT ![uploadId] =
                          @ \/ PendingChunk(uploadId)]
    /\ UNCHANGED <<isConnected, apiKeySet, uploadSessions, nextUploadId, now,
                   assetsReturned, completeCalled, observed>>
    /\ UNCHANGED clientVars

\* from the remote answer to the return: the increment is made on the session
\* object the call looked up before the await, in the ok branch and in the
\* local fallback alike
UploadChunkResume(c, ok) ==
    /\ calls[c].op = "uploadChunk"
    /\ LET f == calls[c]
       IN /\ heap' = [heap EXCEPT ![f.uploadId] = AcceptChunk(@, f.chunkIndex)]
          /\ chunkSuccess' = [chunkSuccess EXCEPT ![f.uploadId] = @ + 1]
          /\ Finish("uploadChunk", f.uploadId, f.chunkIndex, TRUE, f.late,
                    ChunkOk(f.chunkIndex, IF ok THEN "remote" ELSE "md5"))
    /\ calls' = [calls EXCEPT ![c] = NoCall]
    /\ UNCHANGED <<isConnected, apiKeySet, uploadSessions, nextUploadId, now,
                   opCount, assetsReturned, completeCalled, observed, overlapSeen>>
    /\ UNCHANGED clientVars

\* ------------------------------------------------------------------------
\* MediaHubClient.completeUpload
\* ------------------------------------------------------------------------

\* the call up to its return, its throw, or `await fetch(.../complete)`
\* a completeUpload that asks for every chunk to have been counted
CompleteFindsCoveredSession(uploadId) ==
    /\ uploadId \in uploadSessions
    /\ heap[uploadId].completedChunks >= heap[uploadId].totalChunks

\* const session = this.uploadSessions.get(uploadId); if (!session) throw:
\* the only test completeUpload makes before it builds the asset
CompleteFindsSession(uploadId) == uploadId \in uploadSessions

CompleteUpload(uploadId) ==
    /\ opCount < MaxOps
    /\ opCount' = opCount + 1
    /\ IF ~CompleteFindsSession(uploadId)
       THEN /\ Finish("completeUpload", uploadId, 0, FALSE, FALSE,
                      [kind |-> "throw", error |-> "Upload session not found"])
            /\ UNCHANGED <<heap, uploadSessions, calls, assetsReturned,
                           completeCalled>>
       ELSE /\ completeCalled' = [completeCalled EXCEPT ![uploadId] = TRUE]
            /\ IF UseRemote
               THEN /\ HasFreeSlot
                    /\ calls' = [calls EXCEPT ![NextSlot] =
                               [op |-> "completeUpload", uploadId |-> uploadId]]
                    /\ heap' = [heap EXCEPT ![uploadId].status = "completing"]
                    /\ UNCHANGED <<uploadSessions, lastCall, assetsReturned>>
               ELSE /\ heap' = [heap EXCEPT ![uploadId].status = "completed"]
                    /\ uploadSessions' = uploadSessions \ {uploadId}
                    /\ assetsReturned' =
                          [assetsReturned EXCEPT ![uploadId] = @ + 1]
                    /\ Finish("completeUpload", uploadId, 0, TRUE, FALSE,
                              [kind |-> "return", built |-> TRUE,
                               asset |-> BuildAsset(heap[uploadId])])
                    /\ UNCHANGED calls
    /\ UNCHANGED <<isConnected, apiKeySet, nextUploadId, now, chunkSuccess,
                   observed, overlapSeen>>
    /\ UNCHANGED clientVars

\* from the remote answer to the return: the remote asset when the answer is
\* ok (the session keeps status completing; `built` is FALSE, the asset is
\* the remote's), the locally built asset otherwise
CompleteUploadResume(c, ok) ==
    /\ calls[c].op = "completeUpload"
    /\ LET f == calls[c]
       IN /\ heap' = IF ok THEN heap
                     ELSE [heap EXCEPT ![f.uploadId].status = "completed"]
          /\ uploadSessions' = uploadSessions \ {f.uploadId}
          /\ assetsReturned' = [assetsReturned EXCEPT ![f.uploadId] = @ + 1]
          /\ Finish("completeUpload", f.uploadId, 0, TRUE, FALSE,
                    [kind |-> "return", built |-> ~ok,
                     asset |-> BuildAsset(heap[f.uploadId])])
    /\ calls' = [calls EXCEPT ![c] = NoCall]
    /\ UNCHANGED <<isConnected, apiKeySet, nextUploadId, now, opCount,
                   chunkSuccess, completeCalled, observed, overlapSeen>>
    /\ UNCHANGED clientVars

\* ------------------------------------------------------------------------
\* MediaHubClient.getUploadProgress, resumeUpload
\* ------------------------------------------------------------------------

GetUploadProgress(uploadId) ==
    /\ opCount < MaxOps
    /\ opCount' = opCount + 1
    /\ IF uploadId \notin uploadSessions
       THEN /\ Finish("getUploadProgress", uploadId, 0, FALSE, FALSE,
                      [kind |-> "return", null |-> TRUE])
            /\ UNCHANGED observed
       ELSE /\ observed' = [observed EXCEPT ![uploadId] =
                               [seen |-> TRUE,
                                progress |-> ProgressOf(heap[uploadId]),
                                completedChunks |->
                                    heap[uploadId].completedChunks,
                                prev |-> @.completedChunks]]
            /\ Finish("getUploadProgress", uploadId, 0, TRUE, FALSE,
                      [kind |-> "return", null |-> FALSE,
                       progress |-> ProgressOf(heap[uploadId])])
    /\ UNCHANGED <<isConnected, apiKeySet, uploadSessions, heap, nextUploadId,
                   now, calls, assetsReturned, chunkSuccess, completeCalled,
                   overlapSeen>>
    /\ UNCHANGED clientVars

ResumeUpload(uploadId) ==
    /\ opCount < MaxOps
    /\ opCount' = opCount + 1
    /\ IF uploadId \notin uploadSessions
          \/ ~CanResume(heap[uploadId])
       THEN Finish("resumeUpload", uploadId, 0, uploadId \in uploadSessions,
                   FALSE, [kind |-> "return", null |-> TRUE])
       ELSE Finish("resumeUpload", uploadId, 0, TRUE, FALSE,
                   [kind |-> "return", null |-> FALSE,
                    nextChunk |-> heap[uploadId].completedChunks,
                    session |-> heap[uploadId]])
    /\ UNCHANGED <<isConnected, apiKeySet, uploadSessions, heap, nextUploadId,
                   now, calls, assetsReturned, chunkSuccess, completeCalled,
                   observed, overlapSeen>>
    /\ UNCHANGED clientVars

\* ------------------------------------------------------------------------
\* The session store under concurrent calls
\* ------------------------------------------------------------------------

StoreNext ==
    \/ Connect
    \/ Disconnect
    \/ \E md \in Metadata : InitializeUpload(md)
    \/ \E c \in Slots, ok \in BOOLEAN : InitializeUploadResume(c, ok)
    \/ \E id \in UploadIds, i \in ChunkIndices : UploadChunk(id, i)
    \/ \E c \in Slots, ok \in BOOLEAN : UploadChunkResume(c, ok)
    \/ \E id \in UploadIds : CompleteUpload(id)
    \/ \E c \in Slots, ok \in BOOLEAN : CompleteUploadResume(c, ok)
    \/ \E id \in UploadIds : GetUploadProgress(id)
    \/ \E id \in UploadIds : ResumeUpload(id)

SpecStore == Init /\ [][StoreNext]_vars

\* the same, with the clock advancing
StoreClockNext ==
    \/ StoreNext
    \/ Tick

SpecStoreClock == Init /\ [][StoreClockNext]_vars

\* ------------------------------------------------------------------------
\* The upload routes (POST /upload/init, POST /upload/:uploadId/chunk, GET
\* /upload/:uploadId/progress, POST /upload/:uploadId/resume, POST
\* /upload/:uploadId/complete) for requests that passed isAuthenticated.
\* A route validates the request, calls the store and answers from what the
\* call returned or threw: the answer is a function of the finished call.
\* ------------------------------------------------------------------------

\* a JS number too wide for one machine integer: gib * 2^30 + bytes,
\* 0 <= bytes < 2^30; `given` is FALSE for a field the body does not have
GiB == 1024 * 1024 * 1024
Wide(g, b) == [given |-> TRUE, gib |-> g, bytes |-> b]
NotGiven == [given |-> FALSE, gib |-> 0, bytes |-> 0]
\* 10 * 1024 * 1024 * 1024
MAX_FILE_SIZE == Wide(10, 0)
WideGreater(a, b) == a.gib > b.gib \/ (a.gib = b.gib /\ a.bytes > b.bytes)
ToBytes(a) == (a.gib * GiB) + a.bytes

\* `!v` for a string field ("" stands for a field that is absent or empty)
\* and for a number field (absent or 0)
FalsyString(v) == v = ""
FalsyNumber(v) == ~v.given \/ (v.gib = 0 /\ v.bytes = 0)

\* the bodies POST /upload/init is sent; fileSize is whatever number the
\* JSON body carries, a negative one included
InitBodies == [filename : {"", "clip.mp4"},
               fileSize : {NotGiven, Wide(0, 0), Wide(0, 1), Wide(0, -1),
                           Wide(0, CHUNK_SIZE + 1), Wide(10, 1)},
               mimeType : {"", "video/mp4"}]

\* header values, as the characters of the string parseInt is given; an
\* absent header is undefined, which parseInt reads as "undefined"
MissingHeader == <<"u", "n", "d", "e", "f", "i", "n", "e", "d">>
ChunkHeaders == {MissingHeader, <<"a">>, <<"0">>, <<"1">>, <<"1", "x">>,
                 <<"1", ".", "5">>}

DigitChars == <<"0", "1", "2", "3", "4", "5", "6", "7", "8", "9">>
IsDigit(ch) == \E d \in 1..10 : DigitChars[d] = ch
DigitValue(ch) == (CHOOSE d \in 1..10 : DigitChars[d] = ch) - 1

RECURSIVE SkipSpace(_)
SkipSpace(h) == IF h # <<>> /\ Head(h) = " " THEN SkipSpace(Tail(h)) ELSE h

\* the value of the longest prefix of digits of h after the digits read so
\* far gave acc; `any` tells whether a digit was read
RECURSIVE ReadDigits(_, _, _)
ReadDigits(h, acc, any) ==
    IF h # <<>> /\ IsDigit(Head(h))
    THEN ReadDigits(Tail(h), (acc * 10) + DigitValue(Head(h)), TRUE)
    ELSE [nan |-> ~any, value |-> acc]

\* parseInt(h, 10): leading white space is skipped, a sign is read, then the
\* longest prefix of digits; NaN when there is no digit
ParseInt(h) ==
    LET t == SkipSpace(h)
        neg == t # <<>> /\ Head(t) = "-"
        body == IF t # <<>> /\ Head(t) \in {"-", "+"} THEN Tail(t) ELSE t
        r == ReadDigits(body, 0, FALSE)
    IN IF neg THEN [r EXCEPT !.value = 0 - @] ELSE r

\* res.status(status).json({success: false, error}) before the store is called
Reject(route, uploadId, status, err) ==
    /\ opCount < MaxOps
    /\ opCount' = opCount + 1
    /\ Finish("rejected", uploadId, 0, FALSE, FALSE,
              [kind |-> "reject", route |-> route, status |-> status,
               error |-> err])
    /\ UNCHANGED <<isConnected, apiKeySet, uploadSessions, heap, nextUploadId,
                   now, calls, assetsReturned, chunkSuccess, completeCalled,
                   observed, overlapSeen>>
    /\ UNCHANGED clientVars

\* POST /upload/init
PostUploadInit(body) ==
    IF FalsyString(body.filename) \/ FalsyNumber(body.fileSize)
       \/ FalsyString(body.mimeType)
    THEN Reject("init", 0, 400,
                "Missing required fields: filename, fileSize, mimeType")
    ELSE IF WideGreater(body.fileSize, MAX_FILE_SIZE)
    THEN Reject("init", 0, 400, "File too large. Maximum size is 10GB.")
    ELSE InitializeUpload([filename |-> body.filename,
                           fileSize |-> ToBytes(body.fileSize),
                           mimeType |-> body.mimeType,
                           creatorId |-> "creatorA"])

\* POST /upload/:uploadId/chunk; hasFile: multer found the `chunk` part
PostUploadChunk(uploadId, header, hasFile) ==
    LET chunkIndex == ParseInt(header)
    IN IF chunkIndex.nan
       THEN Reject("chunk", uploadId, 400, "Missing X-Chunk-Index header")
       ELSE IF ~hasFile
       THEN Reject("chunk", uploadId, 400, "No chunk data provided")
       ELSE UploadChunk(uploadId, chunkIndex.value)

\* GET /upload/:uploadId/progress
GetUploadProgressRoute(uploadId) == GetUploadProgress(uploadId)

\* POST /upload/:uploadId/resume
PostUploadResume(uploadId) == ResumeUpload(uploadId)

\* POST /upload/:uploadId/complete
PostUploadComplete(uploadId) == CompleteUpload(uploadId)

\* the HTTP status the route answers with when its call finished as `call`
RouteStatus(call) ==
    IF call.op = "rejected" THEN call.ret.status
    ELSE IF call.ret.kind = "throw" THEN 500
    ELSE IF call.op = "uploadChunk"
    THEN (IF call.ret.success THEN 200 ELSE 400)
    ELSE IF call.op \in {"getUploadProgress", "resumeUpload"}
    THEN (IF call.ret.null THEN 404 ELSE 200)
    ELSE 200

RoutesNext ==
    \/ Connect
    \/ Disconnect
    \/ \E body \in InitBodies : PostUploadInit(body)
    \/ \E c \in Slots, ok \in BOOLEAN : InitializeUploadResume(c, ok)
    \/ \E id \in UploadIds, h \in ChunkHeaders, f \in BOOLEAN :
          PostUploadChunk(id, h, f)
    \/ \E c \in Slots, ok \in BOOLEAN : UploadChunkResume(c, ok)
    \/ \E id \in UploadIds : GetUploadProgressRoute(id)
    \/ \E id \in UploadIds : PostUploadResume(id)
    \/ \E id \in UploadIds : PostUploadComplete(id)
    \/ \E c \in Slots, ok \in BOOLEAN : CompleteUploadResume(c, ok)

SpecRoutes == Init /\ [][RoutesNext]_vars

\* ------------------------------------------------------------------------
\* useChunkedUpload: uploadFile and its chunk workers.  One step is one task
\* of the event loop with the promise reactions it triggers.
\* ------------------------------------------------------------------------

\* the chunk requests a step sends: the workers that enter "sent"
NewSends(ws2) == {i \in Chunks : ws2[i].pc = "sent" /\ workers[i].pc # "sent"}

CountSends(ws2) ==
    /\ sends' = [i \in Chunks |->
                    IF i \in NewSends(ws2) THEN sends[i] + 1 ELSE sends[i]]
    /\ sentAfterCancel' =
          (sentAfterCancel \/ (cancelIssued /\ NewSends(ws2) # {}))

\* uploadFile leaves through its catch block (result null) or returns the
\* completion result; the finally block runs in both cases
Return(res, err) ==
    /\ phase' = "returned"
    /\ result' = res
    /\ error' = err
    /\ isUploading' = FALSE
    /\ uploadSessionRef' = 0
    /\ hasController' = FALSE

\* what the main loop of uploadFile does after the promise reactions of a
\* step: "cancelled" / "failed" (Promise.race rejected), "complete" (the loop
\* ended, the complete request is sent), "none" (it keeps awaiting, or
\* uploadFile had returned before)
MainOutcome(outcome) ==
    /\ IF outcome = "cancelled" THEN Return("null", "Upload cancelled")
       ELSE IF outcome = "failed" THEN Return("null", "chunk failed")
       ELSE /\ phase' = IF outcome = "complete" THEN "complete" ELSE phase
            /\ UNCHANGED <<result, error, isUploading, uploadSessionRef,
                           hasController>>
    /\ completeSent' = IF outcome = "complete" THEN completeSent + 1
                       ELSE completeSent

\* the main loop ending as soon as the queue is empty
\* (while (chunkQueue.length > 0)), with chunk transfers still active
OutcomeOfQueueOnly(ws2, queue, active, resolved) ==
    LET rej == {j \in Chunks : ws2[j].pc = "rejected"
                               /\ workers[j].pc # "rejected"}
    IN IF \E j \in rej : ws2[j].why = "abort" THEN "cancelled"
       ELSE IF rej # {} THEN "failed"
       ELSE IF resolved /\ queue = <<>> THEN "complete"
       ELSE "none"

\* the outcome for the main loop when the workers are ws2, the queue and the
\* active uploads are as given, and `resolved` tells whether a processChunk
\* promise resolved in this step
OutcomeOf(ws2, queue, active, resolved) ==
    LET rej == {j \in Chunks : ws2[j].pc = "rejected"
                               /\ workers[j].pc # "rejected"}
    IN IF \E j \in rej : ws2[j].why = "abort" THEN "cancelled"
       ELSE IF rej # {} THEN "failed"
       ELSE IF resolved /\ queue = <<>> /\ active = {} THEN "complete"
       ELSE "none"

\* the uploadChunk call of chunk i moves to w2 in this step.  When it
\* returned (pc "done", whatever the value), processChunk counts the chunk
\* and publishes progress, the promise leaves activeUploads, and the main
\* loop, if uploadFile is still running, refills and goes on.
WorkerEvent(i, w2, elapsedSeconds) ==
    LET resolved == w2.pc = "done"
        alive == phase = "chunks"
        ws1 == [workers EXCEPT ![i] = w2]
        a1 == IF resolved THEN activeUploads \ {i} ELSE activeUploads
        cc1 == IF resolved THEN completedChunks + 1 ELSE completedChunks
        F == IF alive /\ resolved
             THEN Fill(ws1, chunkQueue, a1, configRef.maxParallelChunks,
                       pausedRef, signalAborted)
             ELSE [ws |-> ws1, queue |-> chunkQueue, active |-> a1]
    IN /\ workers' = F.ws
       /\ chunkQueue' = F.queue
       /\ activeUploads' = F.active
       /\ completedChunks' = cc1
       /\ progress' = IF resolved
                      THEN UpdateProgress(cc1, totalChunks, file,
                                          configRef.chunkSize, elapsedSeconds)
                      ELSE progress
       /\ CountSends(F.ws)
       /\ MainOutcome(IF alive
                      THEN OutcomeOf(F.ws, F.queue, F.active, resolved)
                      ELSE "none")

\* uploadFile(file) up to `await fetchConfig()`
UploadFile(size) ==
    /\ phase = "idle"
    /\ phase' = "config"
    /\ file' = size
    /\ isUploading' = TRUE
    /\ error' = "none"
    /\ isPaused' = FALSE
    /\ pausedRef' = FALSE
    /\ hasController' = TRUE
    /\ signalAborted' = FALSE
    /\ UNCHANGED <<configRef, uploadSessionRef, totalChunks, chunks, chunkQueue,
                   activeUploads, workers, completedChunks, progress, result,
                   sends, acked, completeSent, cancelIssued, sentAfterCancel>>
    /\ UNCHANGED storeVars

\* fetchConfig settles; uploadFile reads configRef and sends the init request
ConfigDone(answer) ==
    /\ phase = "config"
    /\ phase' = "init"
    /\ configRef' = FetchConfig(configRef, answer)
    /\ UNCHANGED <<chunks, file, hasController, signalAborted, pausedRef, isPaused,
                   isUploading, uploadSessionRef, totalChunks, chunkQueue,
                   activeUploads, workers, completedChunks, progress, result,
                   error, sends, acked, completeSent, cancelIssued,
                   sentAfterCancel>>
    /\ UNCHANGED storeVars

\* the init request settles.  ok: POST /upload/init ran initializeUpload on
\* the store and the session came back; uploadFile builds the chunk queue and
\* runs the first fill of the main loop.  Otherwise initializeUpload throws.
InitDone(ok) ==
    /\ phase = "init"
    /\ IF ok /\ nextUploadId <= MaxSessions
       THEN LET uploadId == nextUploadId
                md == [filename |-> "clip.mp4", fileSize |-> file,
                       mimeType |-> "video/mp4", creatorId |-> "creatorA"]
                session == NewSession(uploadId, md,
                              GenerateForensicSignature(md.creatorId, now), now)
                total == session.totalChunks
                ws0 == [i \in Chunks |-> IF i < total THEN Queued ELSE NoWorker]
                F == Fill(ws0, ChunkSeq(total), {},
                          configRef.maxParallelChunks, pausedRef, signalAborted)
            IN /\ heap' = [heap EXCEPT ![uploadId] = session]
               /\ uploadSessions' = uploadSessions \cup {uploadId}
               /\ nextUploadId' = nextUploadId + 1
               /\ totalChunks' = total
               /\ chunks' = ChunkPlan(total, configRef.chunkSize, file)
               /\ workers' = F.ws
               /\ chunkQueue' = F.queue
               /\ activeUploads' = F.active
               /\ CountSends(F.ws)
               /\ IF OutcomeOf(F.ws, F.queue, F.active, TRUE) = "cancelled"
                  THEN /\ Return("null", "Upload cancelled")
                       /\ UNCHANGED completeSent
                  ELSE /\ phase' = IF total = 0 THEN "complete" ELSE "chunks"
                       /\ completeSent' = IF total = 0 THEN completeSent + 1
                                          ELSE completeSent
                       /\ uploadSessionRef' = uploadId
                       /\ UNCHANGED <<result, error, isUploading,
                                      hasController>>
       ELSE /\ Return("null", "Failed to initialize upload")
            /\ UNCHANGED <<heap, uploadSessions, nextUploadId, totalChunks,
                           chunks, workers, chunkQueue, activeUploads, sends,
                           sentAfterCancel, completeSent>>
    /\ UNCHANGED <<file, configRef, signalAborted, pausedRef, isPaused,
                   completedChunks, progress, acked, cancelIssued>>
    /\ UNCHANGED <<isConnected, apiKeySet, now, calls, opCount, lastCall,
                   assetsReturned, chunkSuccess, completeCalled, observed,
                   overlapSeen>>

\* session.uploadId of the run: the id the store issued last
RunUploadId == nextUploadId - 1

\* POST /upload/:uploadId/chunk handles the request of chunk i.  admitted:
\* the request passed the middleware and uploadChunk ran on the store; the
\* answer is 200 when it returned success, 400 when it did not.  Not
\* admitted: the middleware answered non-2xx and the store was not touched.
ServerChunk(i, admitted) ==
    /\ workers[i].pc = "sent"
    /\ LET uploadId == RunUploadId
           found == uploadId \in uploadSessions
       IN IF admitted /\ found
          THEN /\ heap' = [heap EXCEPT ![uploadId] = AcceptChunk(@, i)]
               /\ workers' = [workers EXCEPT ![i].pc = "respOk"]
          ELSE /\ workers' = [workers EXCEPT ![i].pc = "respErr"]
               /\ UNCHANGED heap
    /\ UNCHANGED <<phase, chunks, file, configRef, hasController, signalAborted,
                   pausedRef, isPaused, isUploading, uploadSessionRef,
                   totalChunks, chunkQueue, activeUploads, completedChunks,
                   progress, result, error, sends, acked, completeSent,
                   cancelIssued, sentAfterCancel>>
    /\ UNCHANGED <<isConnected, apiKeySet, uploadSessions, nextUploadId, now,
                   calls, opCount, lastCall, assetsReturned, chunkSuccess,
                   completeCalled, observed, overlapSeen>>

\* the response to the chunk request of chunk i reaches uploadChunk: a 2xx
\* response makes it return true; any other makes it count a retry and loop,
\* and return false once retries reaches MAX_RETRIES
ChunkResponse(i, elapsedSeconds) ==
    /\ workers[i].pc \in {"respOk", "respErr"}
    /\ LET w == workers[i]
           n == w.retries + 1
           w2 == IF w.pc = "respOk" THEN [w EXCEPT !.pc = "done"]
                 ELSE IF n < MAX_RETRIES
                 THEN Attempt([w EXCEPT !.retries = n], pausedRef,
                              signalAborted)
                 ELSE [w EXCEPT !.pc = "done", !.retries = n]
       IN /\ WorkerEvent(i, w2, elapsedSeconds)
          /\ acked' = IF w.pc = "respOk" THEN acked \cup {i} ELSE acked
    /\ UNCHANGED <<chunks, file, configRef, signalAborted, pausedRef, isPaused,
                   totalChunks, cancelIssued>>
    /\ UNCHANGED storeVars

\* the fetch of chunk i fails with a network error (the request or its
\* response is lost): uploadChunk counts a retry, throws once retries reaches
\* MAX_RETRIES, and otherwise starts the backoff timer
NetworkError(i) ==
    /\ workers[i].pc \in OnTheWire
    /\ LET w == workers[i]
           n == w.retries + 1
           w2 == IF n >= MAX_RETRIES
                 THEN [w EXCEPT !.pc = "rejected", !.retries = n,
                                !.why = "exhausted"]
                 ELSE [w EXCEPT !.pc = "backoff", !.retries = n]
       IN WorkerEvent(i, w2, 0)
    /\ UNCHANGED <<chunks, file, configRef, signalAborted, pausedRef, isPaused,
                   totalChunks, acked, cancelIssued>>
    /\ UNCHANGED storeVars

\* the backoff timer of chunk i fires: back to the top of the while loop
BackoffDone(i) ==
    /\ workers[i].pc = "backoff"
    /\ WorkerEvent(i, Attempt(workers[i], pausedRef, signalAborted), 0)
    /\ UNCHANGED <<chunks, file, configRef, signalAborted, pausedRef, isPaused,
                   totalChunks, acked, cancelIssued>>
    /\ UNCHANGED storeVars

\* checkPause of chunk i finds pausedRef cleared: the pause promise resolves
\* and uploadChunk goes on to its fetch
PausePoll(i) ==
    /\ workers[i].pc = "pauseWait"
    /\ ~pausedRef
    /\ WorkerEvent(i, Fetch(workers[i], signalAborted), 0)
    /\ UNCHANGED <<chunks, file, configRef, signalAborted, pausedRef, isPaused,
                   totalChunks, acked, cancelIssued>>
    /\ UNCHANGED storeVars

\* the complete request settles.  ok: POST /upload/:uploadId/complete ran
\* completeUpload on the store and answered with the asset; otherwise the
\* client's completeUpload throws.
CompleteDone(ok) ==
    /\ phase = "complete"
    /\ LET uploadId == uploadSessionRef
       IN IF ok /\ uploadId \in uploadSessions
          THEN /\ heap' = [heap EXCEPT ![uploadId].status = "completed"]
               /\ uploadSessions' = uploadSessions \ {uploadId}
               /\ Return("success", error)
          ELSE /\ Return("null", "Failed to complete upload")
               /\ UNCHANGED <<heap, uploadSessions>>
    /\ UNCHANGED <<chunks, file, configRef, signalAborted, pausedRef, isPaused,
                   totalChunks, chunkQueue, activeUploads, workers,
                   completedChunks, progress, sends, acked, completeSent,
                   cancelIssued, sentAfterCancel>>
    /\ UNCHANGED <<isConnected, apiKeySet, nextUploadId, now, calls, opCount,
                   lastCall, assetsReturned, chunkSuccess, completeCalled,
                   observed, overlapSeen>>

\* pause()
Pause ==
    /\ phase \in Running
    /\ ~pausedRef
    /\ pausedRef' = TRUE
    /\ isPaused' = TRUE
    /\ UNCHANGED <<phase, chunks, file, configRef, hasController, signalAborted,
                   isUploading, uploadSessionRef, totalChunks, chunkQueue,
                   activeUploads, workers, completedChunks, progress, result,
                   error, sends, acked, completeSent, cancelIssued,
                   sentAfterCancel>>
    /\ UNCHANGED storeVars

\* resume()
Resume ==
    /\ phase # "idle"
    /\ pausedRef
    /\ pausedRef' = FALSE
    /\ isPaused' = FALSE
    /\ UNCHANGED <<phase, chunks, file, configRef, hasController, signalAborted,
                   isUploading, uploadSessionRef, totalChunks, chunkQueue,
                   activeUploads, workers, completedChunks, progress, result,
                   error, sends, acked, completeSent, cancelIssued,
                   sentAfterCancel>>
    /\ UNCHANGED storeVars

\* cancel() while uploadFile runs: the controller aborts, every chunk fetch
\* on the wire rejects with an AbortError, which uploadChunk rethrows and the
\* main loop, when it is awaiting the chunks, catches
Cancel ==
    /\ phase \in Running
    /\ LET ws2 == [i \in Chunks |->
                     IF hasController /\ workers[i].pc \in OnTheWire
                     THEN [workers[i] EXCEPT !.pc = "rejected", !.why = "abort"]
                     ELSE workers[i]]
       IN /\ workers' = ws2
          /\ IF phase = "chunks"
                /\ OutcomeOf(ws2, chunkQueue, activeUploads, FALSE) = "cancelled"
             THEN /\ phase' = "returned"
                  /\ result' = "null"
                  /\ error' = "Upload cancelled"
                  /\ uploadSessionRef' = 0
                  /\ hasController' = FALSE
             ELSE UNCHANGED <<phase, result, error, uploadSessionRef,
                              hasController>>
    /\ signalAborted' = (signalAborted \/ hasController)
    /\ cancelIssued' = TRUE
    /\ isUploading' = FALSE
    /\ isPaused' = FALSE
    /\ progress' = NoProgressState
    /\ UNCHANGED <<chunks, file, configRef, pausedRef, totalChunks, chunkQueue,
                   activeUploads, completedChunks, sends, acked, completeSent,
                   sentAfterCancel>>
    /\ UNCHANGED storeVars

\* POST /upload/:uploadId/resume for the session of the run, sent after
\* uploadFile has returned
ResumeAfterReturn ==
    /\ phase = "returned"
    /\ ResumeUpload(RunUploadId)

ClientNext ==
    \/ \E size \in ClientFileSizes : UploadFile(size)
    \/ \E answer \in ConfigAnswers \cup {NoAnswer} : ConfigDone(answer)
    \/ \E ok \in BOOLEAN : InitDone(ok)
    \/ \E i \in Chunks, admitted \in BOOLEAN : ServerChunk(i, admitted)
    \/ \E i \in Chunks, e \in ElapsedSeconds : ChunkResponse(i, e)
    \/ \E i \in Chunks : NetworkError(i)
    \/ \E i \in Chunks : BackoffDone(i)
    \/ \E i \in Chunks : PausePoll(i)
    \/ \E ok \in BOOLEAN : CompleteDone(ok)
    \/ Pause
    \/ Resume
    \/ Cancel
    \/ ResumeAfterReturn

\* one uploadFile run against the unconnected store
SpecClient == Init /\ [][ClientNext]_vars

\* the steps the event loop takes by itself: a pending request settles, a
\* response is handled, a setTimeout callback (backoff, checkPause) runs
EventLoopStep ==
    \/ \E answer \in ConfigAnswers \cup {NoAnswer} : ConfigDone(answer)
    \/ \E ok \in BOOLEAN : InitDone(ok)
    \/ \E i \in Chunks, admitted \in BOOLEAN : ServerChunk(i, admitted)
    \/ \E i \in Chunks, e \in ElapsedSeconds : ChunkResponse(i, e)
    \/ \E i \in Chunks : BackoffDone(i)
    \/ \E i \in Chunks : PausePoll(i)
    \/ \E ok \in BOOLEAN : CompleteDone(ok)

\* what the user and the network do to a run of uploadFile
UserOrNetworkStep ==
    \/ \E size \in ClientFileSizes : UploadFile(size)
    \/ \E i \in Chunks : NetworkError(i)
    \/ Pause
    \/ Resume
    \/ Cancel

RunNext == EventLoopStep \/ UserOrNetworkStep

\* one uploadFile run in which every pending request is answered and every
\* due timer callback runs; the user's pause, resume and cancel and the
\* network's errors are under no obligation
SpecClientFair == Init /\ [][RunNext]_vars /\ WF_vars(EventLoopStep)

\* one uploadFile run in which every request is answered with success and
\* the user neither pauses nor cancels.  Every request sent gets its answer
\* and every answer is handled by the event loop, hence the fairness.
\* files whose last chunk is a single byte, and files whose last chunk is full
HappyFileSizes == ClientFileSizes \cup {k * CHUNK_SIZE : k \in 1..MaxFileChunks}

HappyNext ==
    \/ \E size \in HappyFileSizes : UploadFile(size)
    \/ \E answer \in ConfigAnswers \cup {NoAnswer} : ConfigDone(answer)
    \/ InitDone(TRUE)
    \/ \E i \in Chunks : ServerChunk(i, TRUE)
    \/ \E i \in Chunks, e \in ElapsedSeconds : ChunkResponse(i, e)
    \/ CompleteDone(TRUE)

SpecClientHappy == Init /\ [][HappyNext]_vars /\ WF_vars(HappyNext)

\* ------------------------------------------------------------------------
\* The chunk arithmetic on its own: totalChunks as initializeUpload computes
\* it and the chunks array as uploadFile builds it, for a range of file and
\* chunk sizes
\* ------------------------------------------------------------------------

PlanChunkSizes == {1, 2, 3, CHUNK_SIZE}
\* file sizes around every multiple of the chunk size c
PlanFileSizes(c) == {(k * c) + r : k \in 0..(MaxPlanChunks - 1), r \in {1, c}}

ChunkingInit ==
    /\ StoreInit
    /\ \E c \in PlanChunkSizes : \E f \in PlanFileSizes(c) :
          ClientInitWith(f, [chunkSize |-> c,
                             maxParallelChunks |-> MAX_PARALLEL_CHUNKS])

\* totalChunks = Math.ceil(fileSize / chunkSize) of initializeUpload, then
\* the loop of uploadFile that builds the chunks array from it
PlanChunks ==
    /\ phase = "idle"
    /\ phase' = "planned"
    /\ LET total == Ceil(file, configRef.chunkSize)
       IN /\ totalChunks' = total
          /\ chunks' = ChunkPlan(total, configRef.chunkSize, file)
    /\ UNCHANGED <<file, configRef, hasController, signalAborted, pausedRef,
                   isPaused, isUploading, uploadSessionRef, chunkQueue,
                   activeUploads, workers, completedChunks, progress, result,
                   error, sends, acked, completeSent, cancelIssued,
                   sentAfterCancel>>
    /\ UNCHANGED storeVars

ChunkingNext == PlanChunks

SpecChunking == ChunkingInit /\ [][ChunkingNext]_vars

\* ------------------------------------------------------------------------
\* Claims about the client orchestrator
\* ------------------------------------------------------------------------

InFlight == {i \in Chunks : workers[i].pc \in InFlightPcs}

\* C1: a chunk whose transfer failed on each of MAX_RETRIES attempts, by a
\* network error or by a non-2xx response, makes uploadFile report failure and
\* no complete request is sent; the complete request is sent only after every
\* chunk of the upload received a 2xx response.
C1_ExhaustedChunkFailsUpload ==
    /\ \A i \in Chunks :
          workers[i].retries >= MAX_RETRIES =>
              /\ completeSent = 0
              /\ phase = "returned" => result = "null"
    /\ completeSent > 0 => \A i \in 0..(totalChunks - 1) : i \in acked

\* C2: at most maxParallelChunks chunk transfers (processChunk started, not
\* yet resolved or rejected) are in flight in every reachable state.
C2_BoundedInFlight ==
    Cardinality(InFlight) <= configRef.maxParallelChunks

\* maxParallelChunks transfers are in flight while a chunk waits in the queue
C2_Witness ==
    /\ phase = "chunks"
    /\ Cardinality(InFlight) = configRef.maxParallelChunks
    /\ chunkQueue # <<>>

\* C3: after a cancel issued while uploadFile runs, no chunk request is sent,
\* no chunk request stays on the wire, and what uploadFile returns is null
\* with the error 'Upload cancelled'.
C3_CancelGivesCancelled ==
    cancelIssued =>
        /\ ~sentAfterCancel
        /\ \A i \in Chunks : workers[i].pc \notin OnTheWire
        /\ phase = "returned" =>
              (result = "null" /\ error = "Upload cancelled")

\* C13: when cancel is issued after exactly one chunk of a file of several
\* chunks was acknowledged to the client, uploadFile returns null with the
\* error 'Upload cancelled', and a resumeUpload made afterwards on the
\* session reports nextChunk = 1, whatever happened to the chunk requests
\* that were in flight at the cancel.
C13_CancelAfterOneAck ==
    (/\ cancelIssued
     /\ totalChunks > 1
     /\ Cardinality(acked) = 1
     /\ phase = "returned") =>
        /\ result = "null"
        /\ error = "Upload cancelled"
        /\ lastCall.op = "resumeUpload" =>
              (~lastCall.ret.null /\ lastCall.ret.nextChunk = 1)

\* C19: when every request succeeds and the user neither pauses nor cancels,
\* uploadFile returns; it returns the success result, having sent every
\* chunk 0 .. totalChunks-1 exactly once and then exactly one complete
\* request, which is sent only after every chunk was acknowledged, in
\* whatever order the parallel chunk transfers finish.
C19_HappyPathTerminates ==
    /\ <>(phase = "returned")
    /\ [](/\ completeSent <= 1
          /\ \A i \in Chunks : sends[i] <= 1
          /\ completeSent > 0 =>
                \A i \in 0..(totalChunks - 1) : i \in acked
          /\ phase = "returned" =>
                /\ result = "success"
                /\ completeSent = 1
                /\ \A i \in Chunks :
                      sends[i] = IF i < totalChunks THEN 1 ELSE 0
                /\ heap[RunUploadId].status = "completed"
                /\ heap[RunUploadId].completedChunks = totalChunks)

\* uploadFile returned the success result for a file of several chunks
C19_Witness ==
    /\ phase = "returned"
    /\ result = "success"
    /\ totalChunks >= 2
    /\ completeSent = 1

\* C21: uploadFile always returns a value: on every return isUploading is
\* false and the session and abort-controller references are cleared; a
\* return of null has the error state set; and when a chunk transfer failed
\* on all its attempts, or cancel was issued, the return is null.
C21_FailuresReturnNull ==
    phase = "returned" =>
        /\ result \in {"success", "null"}
        /\ ~isUploading
        /\ uploadSessionRef = 0
        /\ ~hasController
        /\ result = "null" => error # "none"
        /\ (\/ cancelIssued
            \/ \E i \in Chunks : workers[i].retries >= MAX_RETRIES) =>
              (result = "null" /\ error # "none")

\* C22: while pausedRef is set no chunk request is sent, neither a first
\* attempt nor a retry; pause() leaves the transfers and the abort signal as
\* they are, and no transfer on the wire is aborted while paused unless
\* cancel is called; once pausedRef is cleared, a chunk waiting in the pause
\* poll sends its request (unless pause or cancel is called first).
C22_PauseHoldsSends ==
    /\ [][pausedRef => sends' = sends]_vars
    /\ [][(~pausedRef /\ pausedRef') =>
            (workers' = workers /\ signalAborted' = signalAborted)]_vars
    /\ [][(pausedRef /\ ~cancelIssued') =>
            \A i \in Chunks :
                workers[i].pc \in OnTheWire => workers'[i].why # "abort"]_vars
    /\ \A i \in Chunks :
          (workers[i].pc = "pauseWait" /\ ~pausedRef /\ ~cancelIssued)
              ~> (workers[i].pc = "sent" \/ pausedRef \/ cancelIssued)

\* the upload is paused with one chunk held in the pause poll before its
\* retry and another chunk's request still on the wire
C22_Witness ==
    /\ pausedRef
    /\ ~cancelIssued
    /\ \E i \in Chunks : workers[i].pc = "pauseWait" /\ workers[i].retries > 0
    /\ \E j \in Chunks : workers[j].pc \in OnTheWire

\* C24: whenever cancel is called while uploadFile runs, uploadFile returns.
C24_CancelTerminates == cancelIssued ~> (phase = "returned")

\* C23: every chunk is sent at most MAX_RETRIES times, and a failed attempt,
\* by a network error or by a non-2xx response, is followed by the backoff
\* wait before the next attempt (or ends the transfer).
C23_BackoffBetweenAttempts ==
    /\ [](\A i \in Chunks : sends[i] <= MAX_RETRIES)
    /\ [][\A i \in Chunks :
            workers'[i].retries > workers[i].retries =>
                workers'[i].pc \in {"backoff", "rejected", "done"}]_vars

\* C26: the chunksCompleted of the progress state, and the counter behind
\* it, never exceed the number of chunks for which a 2xx response reached
\* the client, and 100% is reported only when every chunk was acknowledged.
C26_CounterCountsAcks ==
    /\ completedChunks <= Cardinality(acked)
    /\ progress # NoProgressState =>
          /\ progress.chunksCompleted <= Cardinality(acked)
          /\ progress.percentage = 100 =>
                \A i \in 0..(totalChunks - 1) : i \in acked

\* C27: no chunk request is sent before the init request returned a
\* session; the complete request is sent only with the chunk queue empty and
\* no chunk transfer in flight; at most one complete request is sent; no
\* chunk request is sent after it.
C27_ProtocolOrder ==
    /\ []((\E i \in Chunks : sends[i] > 0) =>
            (nextUploadId > 1 /\ phase \notin {"idle", "config", "init"}))
    /\ [](completeSent <= 1)
    /\ [][completeSent' > completeSent =>
            /\ chunkQueue' = <<>>
            /\ \A i \in Chunks : workers'[i].pc \notin InFlightPcs]_vars
    /\ [][completeSent > 0 => sends' = sends]_vars

\* the complete request of an upload of several chunks was sent after every
\* chunk had been sent
C27_Witness ==
    /\ completeSent = 1
    /\ totalChunks >= 2
    /\ \A i \in 0..(totalChunks - 1) : sends[i] >= 1

\* C28: in every progress state published during an upload,
\* 0 <= chunksCompleted <= totalChunks, uploadedBytes is
\* min(chunksCompleted * chunkSize, totalBytes) and at most totalBytes,
\* percentage is between 0 and 100, and remainingTime is 0 whenever speed is
\* 0; from one progress state to the next chunksCompleted and uploadedBytes
\* do not decrease.
C28_ProgressInRange ==
    /\ [](progress # NoProgressState =>
            /\ 0 <= progress.chunksCompleted
            /\ progress.chunksCompleted <= progress.totalChunks
            /\ progress.totalChunks = totalChunks
            /\ progress.totalBytes = file
            /\ progress.uploadedBytes =
                  Min(progress.chunksCompleted * configRef.chunkSize,
                      progress.totalBytes)
            /\ progress.uploadedBytes <= progress.totalBytes
            /\ progress.percentage \in 0..100
            /\ progress.speed.num = 0 => progress.remainingTime.num = 0)
    /\ [][(progress # NoProgressState /\ progress' # NoProgressState) =>
            /\ progress'.chunksCompleted >= progress.chunksCompleted
            /\ progress'.uploadedBytes >= progress.uploadedBytes]_vars

\* the progress state after the last chunk of a file whose last chunk is
\* shorter than chunkSize, published with the clock still at the start time
C28_Witness ==
    /\ progress # NoProgressState
    /\ progress.totalChunks >= 2
    /\ progress.chunksCompleted = progress.totalChunks
    /\ progress.uploadedBytes = progress.totalBytes
    /\ progress.uploadedBytes
          < progress.chunksCompleted * configRef.chunkSize
    /\ progress.speed.num = 0
    /\ progress.remainingTime = ZeroRatio

\* C29: once uploadFile has returned null because a chunk exhausted its
\* retries, no chunk request is sent any more.
C29_NoSendAfterFailure ==
    [][(/\ phase = "returned"
        /\ result = "null"
        /\ \E i \in Chunks : workers[i].why = "exhausted") =>
            sends' = sends]_vars

\* ------------------------------------------------------------------------
\* Claims about the session store
\* ------------------------------------------------------------------------

AllReturned == \A c \in Slots : calls[c].op = "idle"

\* C4: for every session in the store, 0 <= completedChunks <= totalChunks,
\* after any sequence of uploadChunk calls, repeated chunk indices included.
C4_CompletedWithinTotal ==
    \A id \in uploadSessions :
        /\ 0 <= heap[id].completedChunks
        /\ heap[id].completedChunks <= heap[id].totalChunks

\* C5: completeUpload returns at most one MediaAsset per upload id, under any
\* interleaving of concurrent completeUpload calls.
C5_AtMostOneAsset ==
    \A id \in UploadIds : assetsReturned[id] <= 1

\* C6: once completeUpload was called for an upload id, no uploadChunk call
\* for it returns success or increments completedChunks any more; and once
\* completeUpload has returned an asset, the session is absent from the store.
C6_NoChunkAfterComplete ==
    /\ [](\A id \in UploadIds :
            assetsReturned[id] > 0 => id \notin uploadSessions)
    /\ [][\A id \in UploadIds :
            completeCalled[id] =>
                /\ chunkSuccess'[id] = chunkSuccess[id]
                /\ heap'[id].completedChunks = heap[id].completedChunks]_vars

\* C7: an uploadChunk call made after the session's expiresAt does not
\* return success (success and the increment are one step of uploadChunk).
C7_ExpiredChunkRefused ==
    (lastCall.op = "uploadChunk" /\ lastCall.late) => ~lastCall.ret.success

\* C8: the completedChunks and the progress percentage that successive
\* getUploadProgress calls observe for a session never decrease.
C8_ProgressNonDecreasing ==
    [][\A id \in UploadIds :
        (observed[id].seen /\ observed'[id].seen) =>
            /\ observed'[id].completedChunks >= observed[id].completedChunks
            /\ observed'[id].progress.num * observed[id].progress.den
                 >= observed[id].progress.num * observed'[id].progress.den]_vars

\* a later progress query saw more completed chunks than the one before it
C8_Witness ==
    \E id \in UploadIds :
        /\ observed[id].seen
        /\ observed[id].prev >= 0
        /\ observed[id].completedChunks > observed[id].prev

C10_UnknownChunkFails ==
    [][(/\ lastCall'.flip # lastCall.flip
        /\ opCount' = opCount + 1
        /\ lastCall'.op = "uploadChunk"
        /\ lastCall'.uploadId \notin uploadSessions) =>
            /\ lastCall'.ret.kind = "return"
            /\ lastCall'.ret.success = FALSE
            /\ lastCall'.ret.error = "Session not found"
            /\ heap' = heap
            /\ uploadSessions' = uploadSessions]_vars

\* an uploadChunk call with an unknown id has returned its failure while the
\* store holds a session with accepted chunks
C10_Witness ==
    /\ lastCall.op = "uploadChunk"
    /\ lastCall.uploadId \notin uploadSessions
    /\ lastCall.ret.success = FALSE
    /\ \E id \in uploadSessions : heap[id].completedChunks > 0

\* ------------------------------------------------------------------------
\* Claims about the chunk arithmetic
\* ------------------------------------------------------------------------

RECURSIVE SumOfLengths(_)
SumOfLengths(cs) ==
    IF cs = <<>> THEN 0
    ELSE (Head(cs).end - Head(cs).start) + SumOfLengths(Tail(cs))

\* C16: for every fileSize > 0 and chunkSize > 0, totalChunks is
\* ceil(fileSize / chunkSize) (the least n with n * chunkSize >= fileSize),
\* and the byte ranges of chunks 0 .. totalChunks-1 start at 0, are contiguous
\* and non-overlapping, are non-empty, have lengths summing to fileSize, and
\* the last has length fileSize - (totalChunks - 1) * chunkSize.
C16_ChunkPlanCoversFile ==
    phase = "planned" =>
        LET n == totalChunks
            c == configRef.chunkSize
        IN /\ n >= 1
           /\ n * c >= file
           /\ (n - 1) * c < file
           /\ Len(chunks) = n
           /\ chunks[1].start = 0
           /\ \A k \in 1..n : /\ chunks[k].index = k - 1
                               /\ chunks[k].end > chunks[k].start
           /\ \A k \in 1..(n - 1) : chunks[k].end = chunks[k + 1].start
           /\ SumOfLengths(chunks) = file
           /\ chunks[n].end - chunks[n].start = file - ((n - 1) * c)

\* a plan of several chunks whose last chunk is shorter than the chunk size
C16_Witness ==
    /\ phase = "planned"
    /\ totalChunks >= 3
    /\ configRef.chunkSize > 1
    /\ chunks[totalChunks].end - chunks[totalChunks].start
          < configRef.chunkSize

\* a call was made and returned in this very step
ReturnedAtOnce(op) ==
    /\ lastCall'.flip # lastCall.flip
    /\ opCount' = opCount + 1
    /\ lastCall'.op = op

\* C12: resumeUpload returns null exactly when the session is not in the
\* store or its status is not in_progress; otherwise nextChunk is the
\* session's completedChunks; in both cases the sessions and the rest of the
\* store are left as they were.
C12_ResumeReadsCursor ==
    [][ReturnedAtOnce("resumeUpload") =>
          LET id == lastCall'.uploadId
              resumable == id \in uploadSessions
                           /\ heap[id].status = "in_progress"
          IN /\ lastCall'.ret.null = ~resumable
             /\ resumable =>
                   /\ lastCall'.ret.nextChunk = heap[id].completedChunks
                   /\ lastCall'.ret.session = heap[id]
             /\ UNCHANGED <<isConnected, apiKeySet, uploadSessions, heap,
                            nextUploadId, now, calls, assetsReturned,
                            chunkSuccess, completeCalled>>]_vars

\* resumeUpload returned the cursor of a session that has accepted chunks
C12_Witness ==
    /\ lastCall.op = "resumeUpload"
    /\ ~lastCall.ret.null
    /\ lastCall.ret.nextChunk >= 1

StatusRank(st) ==
    IF st = "in_progress" THEN 0 ELSE IF st = "completing" THEN 1 ELSE 2

\* C14: the status of a session only moves forward: once completed or failed
\* it never changes again, and it never goes from completing back to
\* in_progress, whatever calls are made and however they interleave.
C14_StatusMovesForward ==
    [][\A id \in UploadIds :
          heap[id] # NoSession =>
              /\ heap[id].status \in {"completed", "failed"} =>
                     heap'[id].status = heap[id].status
              /\ StatusRank(heap'[id].status) >= StatusRank(heap[id].status)]_vars

\* an uploadChunk call that was suspended returned after the session was
\* completed, and the session is still completed
C14_Witness ==
    /\ lastCall.op = "uploadChunk"
    /\ lastCall.found
    /\ heap[lastCall.uploadId].status = "completed"

\* C15: a session's forensicSignature never changes once initializeUpload
\* has set it, and the asset completeUpload builds carries that signature
\* and the session's creatorId, platformId, fileSize and mimeType, with
\* processingStatus pending.
C15_SignatureCarried ==
    /\ [][\A id \in UploadIds :
            heap[id] # NoSession =>
                heap'[id].forensicSignature = heap[id].forensicSignature]_vars
    /\ []((/\ lastCall.op = "completeUpload"
           /\ lastCall.ret.kind = "return"
           /\ lastCall.ret.built) =>
              LET session == heap[lastCall.uploadId]
                  asset == lastCall.ret.asset
              IN /\ asset.forensicSignature = session.forensicSignature
                 /\ asset.creatorId = session.creatorId
                 /\ asset.platformId = session.platformId
                 /\ asset.fileSize = session.fileSize
                 /\ asset.mimeType = session.mimeType
                 /\ asset.processingStatus = "pending")

\* completeUpload built the asset of a session that had accepted chunks
C15_Witness ==
    /\ lastCall.op = "completeUpload"
    /\ lastCall.ret.kind = "return"
    /\ lastCall.ret.built
    /\ heap[lastCall.uploadId].completedChunks > 0
    /\ lastCall.ret.asset.forensicSignature
          = heap[lastCall.uploadId].forensicSignature

C25_CompleteIgnoresCoverage ==
    /\ [][\A id \in UploadIds :
            (/\ id \in uploadSessions
             /\ ReturnedAtOnce("completeUpload")
             /\ lastCall'.uploadId = id) =>
                /\ ~UseRemote
                /\ lastCall'.ret.kind = "return"
                /\ id \notin uploadSessions']_vars
    /\ [][\A c \in Slots :
            (calls[c].op = "completeUpload" /\ calls'[c] = NoCall) =>
                /\ lastCall'.op = "completeUpload"
                /\ lastCall'.ret.kind = "return"
                /\ calls[c].uploadId \notin uploadSessions']_vars

\* completeUpload returned an asset for a session none of whose chunks had
\* been counted, and the session left the map
C25_Witness ==
    /\ lastCall.op = "completeUpload"
    /\ lastCall.ret.kind = "return"
    /\ lastCall.uploadId \in UploadIds
    /\ heap[lastCall.uploadId].totalChunks = 2
    /\ heap[lastCall.uploadId].completedChunks = 0
    /\ lastCall.uploadId \notin uploadSessions

\* ------------------------------------------------------------------------
\* Claims about the upload routes
\* ------------------------------------------------------------------------

\* C11: a chunk, progress, resume or complete request that names an upload id
\* the store does not hold is answered with 404.
C11_UnknownIdGives404 ==
    (/\ lastCall.op \in {"uploadChunk", "getUploadProgress", "resumeUpload",
                         "completeUpload"}
     /\ ~lastCall.found) => RouteStatus(lastCall) = 404

\* the header is a decimal integer and nothing else
IsNumeric(h) == h # <<>> /\ \A k \in 1..Len(h) : IsDigit(h[k])

\* C20: POST /upload/init with filename, fileSize or mimeType missing, or
\* with fileSize above 10 GiB, answers 400 and registers no session; POST
\* /upload/:uploadId/chunk with the X-Chunk-Index header missing or
\* non-numeric, or without the chunk body, answers 400 and increments no
\* completedChunks.
C20_RejectedLeavesStore ==
    [][/\ \A body \in InitBodies :
            (/\ \/ body.filename = ""
                \/ ~body.fileSize.given
                \/ body.mimeType = ""
                \/ WideGreater(body.fileSize, MAX_FILE_SIZE)
             /\ PostUploadInit(body)) =>
                /\ RouteStatus(lastCall') = 400
                /\ uploadSessions' = uploadSessions
                /\ heap' = heap
       /\ \A id \in UploadIds, h \in ChunkHeaders, f \in BOOLEAN :
            (/\ ~IsNumeric(h) \/ ~f
             /\ PostUploadChunk(id, h, f)) =>
                /\ RouteStatus(lastCall') = 400
                /\ uploadSessions' = uploadSessions
                /\ heap' = heap]_vars

\* C30: every session registered through POST /upload/init has fileSize > 0
\* and totalChunks >= 1, and every chunk the store accepted has an index
\* with 0 <= chunkIndex < totalChunks of its session.
C30_SessionsAndIndicesInRange ==
    /\ \A id \in uploadSessions :
          heap[id].fileSize > 0 /\ heap[id].totalChunks >= 1
    /\ (/\ lastCall.op = "uploadChunk"
        /\ lastCall.ret.kind = "return"
        /\ lastCall.ret.success) =>
            /\ 0 <= lastCall.chunkIndex
            /\ lastCall.chunkIndex < heap[lastCall.uploadId].totalChunks

=============================================================================
